---- MODULE Spec2Model ----
(***************************************************************************)
(* SpotLive: the feed of geotagged, expiring stories (src/App.tsx), its    *)
(* grouping into spots, and the Supabase store behind it (stories,         *)
(* story_likes, story_reports with their triggers and RPC functions).      *)
(*                                                                         *)
(* Units.  Coordinates are integers in units of 0.0001 degree, so that     *)
(* Math.round(x * 1000) and the distances of the spec are exact integer    *)
(* computations.  Time is an integer number of ticks of 5 seconds.         *)
(***************************************************************************)
EXTENDS Bags, Integers, Sequences, FiniteSets, TLC

VARIABLES
    now,            \* the wall clock (Date.now() / NOW()), in ticks
    nextSweep,      \* the instant at which the setInterval of the Cleanup Loop fires next
    activeStories,  \* App state: useState<Story[]>
    displayedSpots, \* App derived state: the useMemo over activeStories
    swept,          \* what the last run of the Cleanup Loop saw: [ran, at, before]
    likedStoryIds,  \* App state: useState<Set<string>>
    stories,        \* store table stories: id -> row
    story_likes,    \* store table story_likes: set of rows [id, story_id, user_id]
    story_reports,  \* store table story_reports: set of rows [story_id, user_id]
    inflight,       \* loadStories calls awaiting getActiveStories: [by, at, stories]
    calls,          \* the handleToggleLikeStory / toggleLike calls in progress
    lastReport,     \* the JSON result of the last report_story call
    isRefreshing,   \* App state: useState(false)
    refreshTimeout, \* the debounce timer of the realtime subscription is pending
    lastRefreshTime,     \* App ref: useRef<Date>(new Date())
    selectedCountryCode, \* App state: useState<string | null>(null)
    selectedFilter, \* App state: useState('All')
    userLocation,   \* App state: useState<{lat, lng} | null>(null)
    score,          \* MapView: the vibeScore of the spot whose marker is drawn
    activity,       \* MapView: const activity = getSpotActivityLevel(spot.vibeScore)
    currentView,    \* App state: useState<ViewState>(ViewState.FEED)
    user,           \* App state: useState<User | null>(null), by the user's id
    pendingView,    \* App state: useState<ViewState | null>(null)
    reportingStoryId,    \* App state: useState<string | null>(null)
    posts,          \* the handlePostSuccess calls awaiting createStory
    stream,         \* CreateView state: useState<MediaStream | null>(null)
    effectStream,   \* CreateView: the stream in the closure of the camera effect
    mediaRequests,  \* CreateView: getUserMedia requests pending, by their effect's mounted
    liveStreams,    \* the camera streams whose tracks are not stopped
    facingMode,     \* CreateView state: useState('environment')
    isSwitchingCamera,   \* CreateView state: useState(false)
    capturedMedia   \* CreateView state: a photo or a video has been captured

refreshVars == <<isRefreshing, refreshTimeout, lastRefreshTime,
                 selectedCountryCode>>

viewVars == <<selectedFilter, userLocation, score, activity>>

sessionVars == <<currentView, user, pendingView, reportingStoryId, posts>>

cameraVars == <<stream, effectStream, mediaRequests, liveStreams, facingMode,
                isSwitchingCamera, capturedMedia>>

vars == <<now, nextSweep, activeStories, displayedSpots, swept, likedStoryIds,
          stories, story_likes, story_reports, inflight, calls,
          lastReport, refreshVars, viewVars, sessionVars, cameraVars>>

\* null, for selectedCountryCode
NoCountry == "null"

\* null, for userLocation
NoLocation == [null |-> TRUE]

\* null, for user, for pendingView, for reportingStoryId and for stream
NoUser == 0

NoView == "null"

NoStory == 0

NoStream == 0

\* a string is the sequence of its characters
All == <<"A", "l", "l">>

\* the state of the refresh controls, of the filter and of the map at mount
InitView ==
    /\ isRefreshing = FALSE
    /\ refreshTimeout = FALSE
    /\ lastRefreshTime = 0
    /\ selectedCountryCode = NoCountry
    /\ selectedFilter = All
    /\ userLocation = NoLocation
    /\ score = 0
    /\ activity = ""

\* the user of this client, whose id is in localStorage from an earlier
\* session (the effect on startup reads it and calls setUser)
Me == 1

\* the session at mount, the user restored, and nothing posted yet
InitSession ==
    /\ currentView = "FEED"
    /\ user = Me
    /\ pendingView = NoView
    /\ reportingStoryId = NoStory
    /\ posts = {}

\* CreateView is not mounted
InitCamera ==
    /\ stream = NoStream
    /\ effectStream = NoStream
    /\ mediaRequests = <<>>
    /\ liveStreams = {}
    /\ facingMode = "environment"
    /\ isSwitchingCamera = FALSE
    /\ capturedMedia = FALSE

(***************************************************************************)
(* Bounds of the model.                                                    *)
(***************************************************************************)
MaxStories == 3
MaxFeedStories == 2
MaxTime == 4
MaxInFlight == 1
MaxUsers == 4
MaxReportedStories == 1
MaxLikeUsers == 2
MaxCalls == 2

(***************************************************************************)
(* Small helpers on sequences.                                             *)
(***************************************************************************)
Range(s) == {s[i] : i \in DOMAIN s}

RECURSIVE SumSeq(_)
SumSeq(s) == IF s = <<>> THEN 0 ELSE Head(s) + SumSeq(Tail(s))

(***************************************************************************)
(* The spots: the displayedSpots useMemo of App.tsx.                       *)
(***************************************************************************)
\* Math.round(x * 1000) for x given in units of 0.0001 degree: the nearest
\* multiple of 0.001, halves rounded towards +infinity as Math.round does.
\* (the division by 1000 that follows in the source only rescales the key)
RoundKey(u) == (u + 5) \div 10

\* KeyOf without the two rounded coordinates: grouping by place name alone.
KeyOfNameOnly(story) == <<story.locationName, 0, 0>>

\* const key = `${story.locationName}|${latKey}|${lonKey}`: the string is
\* determined by, and determines, the three parts (the two numbers are the
\* last two "|"-separated fields), so the key is modelled as the triple.
KeyOf(story) ==
    <<story.locationName, RoundKey(story.latitude), RoundKey(story.longitude)>>

\* GroupByKey with the bug of setting the Map entry anew for a key that is
\* already there (byKey.set(key, {stories: [story], ...}) in both branches).
RECURSIVE GroupByKeyOverwriting(_, _)
GroupByKeyOverwriting(list, byKey) ==
    IF list = <<>> THEN byKey
    ELSE LET story == Head(list)
             key == <<story.locationName, (story.latitude + 5) \div 10,
                      (story.longitude + 5) \div 10>>
             fresh == [key |-> key, stories |-> <<story>>,
                       latSum |-> story.latitude, lonSum |-> story.longitude,
                       locationName |-> story.locationName]
             hit == {i \in DOMAIN byKey : byKey[i].key = key}
         IN  IF hit # {}
             THEN GroupByKeyOverwriting(Tail(list),
                      [byKey EXCEPT ![CHOOSE j \in hit : TRUE] = fresh])
             ELSE GroupByKeyOverwriting(Tail(list), Append(byKey, fresh))

\* for (const story of activeStories) { ... byKey.get(key) ... }: byKey is a
\* Map, which keeps its entries in insertion order: a sequence of groups.
RECURSIVE GroupByKey(_, _)
GroupByKey(list, byKey) ==
    IF list = <<>> THEN byKey
    ELSE LET story == Head(list)
             key == KeyOf(story)
             hit == {i \in DOMAIN byKey : byKey[i].key = key}
         IN  IF hit # {}
             THEN LET i == CHOOSE j \in hit : TRUE
                  IN  GroupByKey(Tail(list),
                        [byKey EXCEPT ![i] =
                            [@ EXCEPT !.stories = Append(@, story),
                                      !.latSum = @ + story.latitude,
                                      !.lonSum = @ + story.longitude]])
             ELSE GroupByKey(Tail(list),
                        Append(byKey, [key |-> key,
                                       stories |-> <<story>>,
                                       latSum |-> story.latitude,
                                       lonSum |-> story.longitude,
                                       locationName |-> story.locationName]))

\* TotalLikes with the likes of the group's first story counted for each story.
TotalLikesOfFirst(list) ==
    IF list = <<>> THEN 0 ELSE Len(list) * list[1].likes

\* const totalLikes = group.stories.reduce((sum, s) => sum + (s.likes || 0), 0)
TotalLikes(list) == SumSeq([i \in DOMAIN list |-> list[i].likes])

PointsPerStory == 20
PointsPerLike == 2

\* VibeScore with the likes averaged over the stories instead of summed.
VibeScoreOfMeanLikes(list) ==
    IF list = <<>> THEN 0
    ELSE Len(list) * PointsPerStory
           + (TotalLikes(list) * PointsPerLike) \div Len(list)

\* const vibeScore = group.stories.length * 20 + totalLikes * 2
VibeScore(list) == Len(list) * PointsPerStory + TotalLikes(list) * PointsPerLike

\* SpotOf with the id taken from the group's first story instead of its key.
SpotOfFirstStory(group) ==
    [id |-> <<"spot_", group.stories[1].id>>,
     name |-> group.locationName,
     latitude |-> [num |-> group.latSum, den |-> Len(group.stories)],
     longitude |-> [num |-> group.lonSum, den |-> Len(group.stories)],
     activeStories |-> group.stories,
     vibeScore |-> Len(group.stories) * PointsPerStory
                     + TotalLikes(group.stories) * PointsPerLike]

\* for (const group of byKey.values()) { ... spots.push(spot) }
\* latitude and longitude are the means latSum / n, kept as exact fractions.
\* neighborhood (a lookup in a table of place names) and description ('')
\* take no part in what is checked here and are left out of the record.
SpotOf(group) ==
    [id |-> <<"spot_", group.key>>,
     name |-> group.locationName,
     latitude |-> [num |-> group.latSum, den |-> Len(group.stories)],
     longitude |-> [num |-> group.lonSum, den |-> Len(group.stories)],
     activeStories |-> group.stories,
     vibeScore |-> VibeScore(group.stories)]

ComputeSpots(list) ==
    LET byKey == GroupByKey(list, <<>>)
    IN  [i \in DOMAIN byKey |-> SpotOf(byKey[i])]

(***************************************************************************)
(* The store: rows of the table stories.                                   *)
(***************************************************************************)
StoryIds == 1..MaxStories

NoRow ==
    [present |-> FALSE, user_id |-> 0, latitude |-> 0, longitude |-> 0,
     location_name |-> "", likes |-> 0, expires_at |-> 0,
     reports_count |-> 0, is_hidden |-> FALSE, country_code |-> ""]

\* supabaseToStory: the row of the store as the Story of the app.  Only the
\* fields the feed computes with are kept; expires_at (an ISO timestamp of
\* millisecond precision) converts to the same instant in epoch time.
supabaseToStory(id, sb) ==
    [id |-> id,
     userId |-> sb.user_id,
     latitude |-> sb.latitude,
     longitude |-> sb.longitude,
     locationName |-> sb.location_name,
     likes |-> sb.likes,
     expiresAt |-> sb.expires_at,
     countryCode |-> sb.country_code]

(***************************************************************************)
(* handleDeleteStory: storiesService.deleteStory (delete ... eq id, eq     *)
(* user_id; ON DELETE CASCADE empties story_likes and story_reports of the *)
(* story), then, whatever the store answered, the story leaves the feed.   *)
(***************************************************************************)
deleteStory(storyId, userId) ==
    IF stories[storyId].present /\ stories[storyId].user_id = userId
    THEN /\ stories' = [stories EXCEPT ![storyId] = NoRow]
         /\ story_likes' = {l \in story_likes : l.story_id # storyId}
         /\ story_reports' = {r \in story_reports : r.story_id # storyId}
    ELSE UNCHANGED <<stories, story_likes, story_reports>>

handleDeleteStory(storyId) ==
    /\ \E i \in DOMAIN activeStories :
          activeStories[i].id = storyId /\ activeStories[i].userId = Me
    /\ deleteStory(storyId, Me)
    /\ activeStories' = SelectSeq(activeStories, LAMBDA s : s.id # storyId)
    /\ displayedSpots' = ComputeSpots(activeStories')
    /\ UNCHANGED <<now, nextSweep, swept, likedStoryIds, inflight,
                   calls, lastReport>>
    /\ UNCHANGED <<refreshVars, viewVars>>
    /\ UNCHANGED <<sessionVars, cameraVars>>

(***************************************************************************)
(* SpecSpots: the spots of a feed, for every content the feed can have.    *)
(* The feed starts as any list of at most MaxStories stories (what a load  *)
(* of the store delivers), and stories leave it by handleDeleteStory.      *)
(***************************************************************************)
\* (9.5150, -13.7100), (9.5151, -13.7101): 0.00014 degree apart, same 0.001 cell
\* (9.5156, -13.7100): 0.0006 degree from the first, in the next 0.001 cell
\* (9.6200, -13.6300): 0.13 degree away
Points ==
    { [lat |-> 95150, lon |-> 0 - 137100],
      [lat |-> 95151, lon |-> 0 - 137101],
      [lat |-> 95156, lon |-> 0 - 137100],
      [lat |-> 96200, lon |-> 0 - 136300] }

LocationNames == {"Le Petit Bateau", "Plage"}

LikeCounts == {0, 41}

InputStories(id) ==
    { [id |-> id, userId |-> Me, latitude |-> p.lat, longitude |-> p.lon,
       locationName |-> n, likes |-> k, expiresAt |-> 1] :
         p \in Points, n \in LocationNames, k \in LikeCounts }

InputLists ==
    UNION { {l \in [1..n -> UNION {InputStories(id) : id \in StoryIds}] :
                \A i \in 1..n : l[i].id = i} : n \in 0..MaxStories }

NoSweep == [ran |-> FALSE, at |-> 0, before |-> <<>>, after |-> <<>>]

NoReport ==
    [success |-> FALSE, error |-> "", reports_count |-> 0, is_hidden |-> FALSE]

InitSpots ==
    /\ now = 0
    /\ nextSweep = 0
    /\ activeStories \in InputLists
    /\ displayedSpots = ComputeSpots(activeStories)
    /\ swept = NoSweep
    /\ likedStoryIds = {}
    /\ stories = [id \in StoryIds |-> NoRow]
    /\ story_likes = {}
    /\ story_reports = {}
    /\ inflight = <<>>
    /\ calls = EmptyBag
    /\ lastReport = NoReport
    /\ InitView
    /\ InitSession
    /\ InitCamera

NextSpots == \E id \in StoryIds : handleDeleteStory(id)

SpecSpots == InitSpots /\ [][NextSpots]_vars

(***************************************************************************)
(* SpecCells: as SpecSpots, for stories of one place name spread over a    *)
(* 0.001 degree cell and beyond it.                                        *)
(***************************************************************************)
\* (9.5145, -13.7105), (9.5154, -13.7096): opposite corners of the cell of
\* (9.5150, -13.7100), 0.00127 degree apart; (9.6200, -13.6300): 0.13 degree away
CellPoints ==
    { [lat |-> 95145, lon |-> 0 - 137105],
      [lat |-> 95154, lon |-> 0 - 137096],
      [lat |-> 95150, lon |-> 0 - 137100],
      [lat |-> 96200, lon |-> 0 - 136300] }

CellStories(id) ==
    { [id |-> id, userId |-> Me, latitude |-> p.lat, longitude |-> p.lon,
       locationName |-> "Plage", likes |-> k, expiresAt |-> 1] :
         p \in CellPoints, k \in LikeCounts }

CellLists ==
    UNION { {l \in [1..n -> UNION {CellStories(id) : id \in StoryIds}] :
                \A i \in 1..n : l[i].id = i} : n \in 0..MaxStories }

InitCells ==
    /\ now = 0
    /\ nextSweep = 0
    /\ activeStories \in CellLists
    /\ displayedSpots = ComputeSpots(activeStories)
    /\ swept = NoSweep
    /\ likedStoryIds = {}
    /\ stories = [id \in StoryIds |-> NoRow]
    /\ story_likes = {}
    /\ story_reports = {}
    /\ inflight = <<>>
    /\ calls = EmptyBag
    /\ lastReport = NoReport
    /\ InitView
    /\ InitSession
    /\ InitCamera

NextCells == \E id \in StoryIds : handleDeleteStory(id)

SpecCells == InitCells /\ [][NextCells]_vars

(***************************************************************************)
(* Claims on the spots.                                                    *)
(***************************************************************************)
Members(spot) == Range(spot.activeStories)

SpotsHolding(story) ==
    {k \in DOMAIN displayedSpots : story \in Members(displayedSpots[k])}

\* C1: the member lists of the spots partition activeStories: every story of
\* activeStories is a member of exactly one spot, every member of a spot is a
\* story of activeStories, and no member list holds a story twice.
C1_Partition ==
    /\ \A i \in DOMAIN activeStories :
          Cardinality(SpotsHolding(activeStories[i])) = 1
    /\ \A k \in DOMAIN displayedSpots :
          /\ Members(displayedSpots[k]) \subseteq Range(activeStories)
          /\ Cardinality(Members(displayedSpots[k]))
                = Len(displayedSpots[k].activeStories)
    /\ SumSeq([k \in DOMAIN displayedSpots |->
                  Len(displayedSpots[k].activeStories)]) = Len(activeStories)

\* C1 witness: a pass that produced two spots, one of them with two members.
C1_Witness ==
    /\ Len(activeStories) = 3
    /\ Len(displayedSpots) = 2
    /\ \E k \in DOMAIN displayedSpots : Len(displayedSpots[k].activeStories) = 2

\* C2: every spot has 0 <= vibeScore <= 100.
C2_ScoreBound ==
    \A k \in DOMAIN displayedSpots :
        /\ displayedSpots[k].vibeScore >= 0
        /\ displayedSpots[k].vibeScore <= 100

\* squared Euclidean distance on the raw coordinates, below 0.0015 degree
Near(a, b) ==
    (a.latitude - b.latitude) * (a.latitude - b.latitude)
      + (a.longitude - b.longitude) * (a.longitude - b.longitude) < 15 * 15

Anchor(spot) == spot.activeStories[1]

\* C6: a story within 0.0015 degree of the first member of an existing
\* cluster joins the earliest-formed such cluster and starts no new spot: no
\* member of a spot (its first member included) is that near to the first
\* member of a spot formed earlier, whatever the place names are.
C6_NearStoriesJoinEarliestSpot ==
    \A k \in DOMAIN displayedSpots : \A k0 \in 1..(k - 1) :
        \A m \in Members(displayedSpots[k]) :
            ~Near(m, Anchor(displayedSpots[k0]))

(***************************************************************************)
(* The clock and the Cleanup Loop (setInterval(..., 10000)).               *)
(***************************************************************************)
\* 10000 ms, in ticks of 5 s
SweepInterval == 2

\* time passes; the interval timer fires when it is due, so the clock does
\* not pass the instant of the next sweep before the sweep has run
Tick ==
    /\ now < MaxTime
    /\ now < nextSweep
    /\ now' = now + 1
    /\ UNCHANGED <<nextSweep, activeStories, displayedSpots, swept,
                   likedStoryIds, stories, story_likes, story_reports,
                   inflight, calls, lastReport>>
    /\ UNCHANGED <<refreshVars, viewVars>>
    /\ UNCHANGED <<sessionVars, cameraVars>>

\* the filter with >= for >: a story is kept at the instant it expires
StillValidAtExpiry(story, at) == story.expiresAt >= at

\* current.filter(s => s.expiresAt > now)
StillValid(story, at) == story.expiresAt > at

\* the sweep whose updater returns current in both cases
CleanupLoopKeepingAll ==
    /\ now = nextSweep
    /\ LET valid == SelectSeq(activeStories, LAMBDA s : StillValid(s, now))
       IN  /\ activeStories' =
                 IF Len(valid) # Len(activeStories) THEN activeStories
                 ELSE activeStories
           /\ swept' = [ran |-> TRUE, at |-> now, before |-> activeStories,
                        after |-> activeStories']
    /\ displayedSpots' = ComputeSpots(activeStories')
    /\ nextSweep' = now + SweepInterval
    /\ UNCHANGED <<now, likedStoryIds, stories, story_likes, story_reports,
                   inflight, calls, lastReport>>
    /\ UNCHANGED <<refreshVars, viewVars>>
    /\ UNCHANGED <<sessionVars, cameraVars>>

\* setActiveStories(current => { const valid = current.filter(...);
\*   return valid.length !== current.length ? valid : current; })
CleanupLoop ==
    /\ now = nextSweep
    /\ LET valid == SelectSeq(activeStories, LAMBDA s : StillValid(s, now))
       IN  /\ activeStories' =
                 IF Len(valid) # Len(activeStories) THEN valid ELSE activeStories
           /\ swept' = [ran |-> TRUE, at |-> now, before |-> activeStories,
                        after |-> activeStories']
    /\ displayedSpots' = ComputeSpots(activeStories')
    /\ nextSweep' = now + SweepInterval
    /\ UNCHANGED <<now, likedStoryIds, stories, story_likes, story_reports,
                   inflight, calls, lastReport>>
    /\ UNCHANGED <<refreshVars, viewVars>>
    /\ UNCHANGED <<sessionVars, cameraVars>>

(***************************************************************************)
(* Row level security of the table stories.                                *)
(***************************************************************************)
\* CREATE POLICY "Anyone can read active stories" ON stories
\*   FOR SELECT USING (expires_at > NOW()): the rows a statement of the
\* client's role (anon) can see
RlsCanSelect(row) == row.present /\ row.expires_at > now

(***************************************************************************)
(* storiesService.getActiveStories and loadStories.                        *)
(***************************************************************************)
\* ids descending: the ids of the rows are numbered in the order the rows
\* were created, and the query asks order('created_at', {ascending: false})
RECURSIVE DescendingIds(_)
DescendingIds(S) ==
    IF S = {} THEN <<>>
    ELSE LET m == CHOOSE x \in S : \A y \in S : y <= x
         IN  <<m>> \o DescendingIds(S \ {m})

\* .gt('expires_at', now).eq('is_hidden', false), under the SELECT policy;
\* if (countryCode && countryCode !== 'ALL') .eq('country_code', countryCode)
ActiveRowIds(countryCode) ==
    {id \in StoryIds : /\ RlsCanSelect(stories[id])
                       /\ stories[id].expires_at > now
                       /\ ~stories[id].is_hidden
                       /\ \/ countryCode \in {NoCountry, "ALL"}
                          \/ stories[id].country_code = countryCode}

\* the answer the store gives now; on an error of the query, []
getActiveStories(countryCode, ok) ==
    IF ok
    THEN LET ids == DescendingIds(ActiveRowIds(countryCode))
         IN  [i \in DOMAIN ids |-> supabaseToStory(ids[i], stories[ids[i]])]
    ELSE <<>>

\* the country the geolocation found; it stays null while the position or
\* its reverse geocoding is not available
userCountryCode == NoCountry

\* loadStories up to its await, as the closure of a render whose
\* selectedCountryCode was country: the query runs in the store.  by names
\* the caller that awaits the call, at is the instant of the call.
loadStories(by, country, ok) ==
    LET countryToFilter ==
            IF country # NoCountry THEN country ELSE userCountryCode
    IN  [by |-> by, at |-> now,
         stories |-> getActiveStories(countryToFilter, ok)]

\* getUserLikes: the stories the user has a record for in story_likes
getUserLikes(userId) ==
    {l.story_id : l \in {r \in story_likes : r.user_id = userId}}

\* a load outside any refresh: handleReportSuccess calls loadStories()
loadStoriesRequest ==
    /\ Len(inflight) < MaxInFlight
    /\ \E ok \in BOOLEAN :
           inflight' = Append(inflight,
                              loadStories("report", selectedCountryCode, ok))
    /\ UNCHANGED <<now, nextSweep, activeStories, displayedSpots, swept,
                   likedStoryIds, stories, story_likes, story_reports,
                   calls, lastReport>>
    /\ UNCHANGED <<refreshVars, viewVars>>
    /\ UNCHANGED <<sessionVars, cameraVars>>

\* loadStories after its await: setActiveStories(stories) and
\* lastRefreshTime.current = new Date(); the answers of several loads arrive
\* in any order.  The load of handleRefresh is awaited together with
\* loadUserLikes, and then finally setIsRefreshing(false); the change of
\* isRefreshing re-runs the effect of the subscription, whose cleanup clears
\* the pending timer.
loadStoriesResponse ==
    \E i \in DOMAIN inflight :
        /\ activeStories' = inflight[i].stories
        /\ displayedSpots' = ComputeSpots(activeStories')
        /\ lastRefreshTime' = now
        /\ inflight' = SubSeq(inflight, 1, i - 1)
                          \o SubSeq(inflight, i + 1, Len(inflight))
        /\ IF inflight[i].by = "manual"
           THEN /\ likedStoryIds' = getUserLikes(Me)
                /\ isRefreshing' = FALSE
                /\ refreshTimeout' = FALSE
           ELSE UNCHANGED <<likedStoryIds, isRefreshing, refreshTimeout>>
        /\ UNCHANGED <<now, nextSweep, swept, stories,
                       story_likes, story_reports, calls,
                       lastReport, selectedCountryCode, viewVars,
                       sessionVars, cameraVars>>

(***************************************************************************)
(* Moderation: story_reports, its two AFTER INSERT triggers, report_story. *)
(***************************************************************************)
Users == 1..MaxUsers

HideThreshold == 3
AbuseThreshold == 10

\* auto_hide_story_on_reports: reads reports_count as it is when the trigger
\* runs, and hides the story from 3 reports on
auto_hide_story_on_reports(tbl, sid) ==
    LET current_reports_count == tbl[sid].reports_count
        hidden1 == IF /\ current_reports_count >= HideThreshold
                      /\ current_reports_count < AbuseThreshold
                   THEN [tbl EXCEPT ![sid].is_hidden = TRUE] ELSE tbl
    IN  IF current_reports_count >= AbuseThreshold
        THEN [hidden1 EXCEPT ![sid].is_hidden = TRUE] ELSE hidden1

\* increment_story_reports: reports_count = reports_count + 1
increment_story_reports(tbl, sid) ==
    [tbl EXCEPT ![sid].reports_count = @ + 1]

\* The two triggers are both AFTER INSERT ... FOR EACH ROW on story_reports.
\* PostgreSQL fires the triggers of one event on one table in alphabetical
\* order of their names: trigger_auto_hide_on_reports runs before
\* trigger_increment_reports.
AfterInsertOnStoryReports(tbl, sid) ==
    increment_story_reports(auto_hide_story_on_reports(tbl, sid), sid)

\* report_story(p_story_id, p_user_id, ...), SECURITY DEFINER (runs as the
\* owner of the tables, outside row level security)
report_story(p_story_id, p_user_id) ==
    IF \E r \in story_reports :
          r.story_id = p_story_id /\ r.user_id = p_user_id
    THEN /\ lastReport' = [success |-> FALSE, error |-> "Already reported",
                           reports_count |-> 0, is_hidden |-> FALSE]
         /\ UNCHANGED <<stories, story_reports>>
    ELSE IF ~(stories[p_story_id].present
                /\ stories[p_story_id].expires_at > now)
    THEN /\ lastReport' = [success |-> FALSE,
                           error |-> "Story not found or expired",
                           reports_count |-> 0, is_hidden |-> FALSE]
         /\ UNCHANGED <<stories, story_reports>>
    ELSE /\ story_reports' = story_reports \cup
                {[story_id |-> p_story_id, user_id |-> p_user_id]}
         /\ stories' = AfterInsertOnStoryReports(stories, p_story_id)
         /\ lastReport' = [success |-> TRUE, error |-> "",
                           reports_count |-> stories'[p_story_id].reports_count,
                           is_hidden |-> stories'[p_story_id].is_hidden]

\* a user of the app (this one or another) reports a story
ReportStory(sid, uid) ==
    /\ report_story(sid, uid)
    /\ UNCHANGED <<now, nextSweep, activeStories, displayedSpots, swept,
                   likedStoryIds, story_likes, inflight, calls>>
    /\ UNCHANGED <<refreshVars, viewVars>>
    /\ UNCHANGED <<sessionVars, cameraVars>>

(***************************************************************************)
(* SpecFeed: the feed of one client over a store whose stories expire and  *)
(* get reported.  The store starts with stories created by other users,    *)
(* for every combination of their expiry instants.                         *)
(***************************************************************************)
FeedStoryIds == 1..MaxFeedStories

FeedRow(expiry) ==
    [present |-> TRUE, user_id |-> 2, latitude |-> 95150,
     longitude |-> 0 - 137100, location_name |-> "Plage", likes |-> 0,
     expires_at |-> expiry, reports_count |-> 0, is_hidden |-> FALSE,
     country_code |-> "GN"]

InitFeed ==
    /\ now = 0
    /\ nextSweep = SweepInterval
    /\ activeStories = <<>>
    /\ displayedSpots = ComputeSpots(activeStories)
    /\ swept = NoSweep
    /\ likedStoryIds = {}
    /\ \E expiry \in [FeedStoryIds -> 1..MaxTime] :
          stories = [id \in StoryIds |->
                        IF id \in FeedStoryIds THEN FeedRow(expiry[id])
                        ELSE NoRow]
    /\ story_likes = {}
    /\ story_reports = {}
    /\ inflight = <<>>
    /\ calls = EmptyBag
    /\ lastReport = NoReport
    /\ InitView
    /\ InitSession
    /\ InitCamera

NextFeed ==
    \/ Tick
    \/ CleanupLoop
    \/ loadStoriesRequest
    \/ loadStoriesResponse

SpecFeed == InitFeed /\ [][NextFeed]_vars

(***************************************************************************)
(* SpecModeration: users report the stories of the store while one client  *)
(* loads its feed.                                                         *)
(***************************************************************************)
ReportedStoryIds == 1..MaxReportedStories

InitModeration ==
    /\ now = 0
    /\ nextSweep = SweepInterval
    /\ activeStories = <<>>
    /\ displayedSpots = ComputeSpots(activeStories)
    /\ swept = NoSweep
    /\ likedStoryIds = {}
    /\ stories = [id \in StoryIds |->
                     IF id \in ReportedStoryIds THEN FeedRow(MaxTime)
                     ELSE NoRow]
    /\ story_likes = {}
    /\ story_reports = {}
    /\ inflight = <<>>
    /\ calls = EmptyBag
    /\ lastReport = NoReport
    /\ InitView
    /\ InitSession
    /\ InitCamera

NextModeration ==
    \/ loadStoriesRequest
    \/ loadStoriesResponse
    \/ \E sid \in ReportedStoryIds : \E uid \in Users : ReportStory(sid, uid)

SpecModeration == InitModeration /\ [][NextModeration]_vars

(***************************************************************************)
(* Likes: the table story_likes, its triggers, storiesService.toggleLike   *)
(* and handleToggleLikeStory.                                              *)
(***************************************************************************)
LikesOf(sid) == {l \in story_likes : l.story_id = sid}

\* story_likes without its UNIQUE(story_id, user_id) constraint
NoUniqueConstraint(sid, uid) == FALSE

\* UNIQUE(story_id, user_id) on story_likes: would this row be a duplicate?
UniqueViolation(sid, uid) ==
    \E l \in story_likes : l.story_id = sid /\ l.user_id = uid

\* An UPDATE stories ... WHERE id = sid run by the client's role: the
\* function of a trigger runs as the role whose statement fired it (it is
\* not SECURITY DEFINER), row level security is enabled on stories, and an
\* UPDATE that reads the row (WHERE id = ..., likes + 1) only reaches the
\* rows the SELECT policy shows.
UpdateStoryAsClient(tbl, sid, newLikes) ==
    IF RlsCanSelect(tbl[sid])
    THEN [tbl EXCEPT ![sid].likes = newLikes]
    ELSE tbl

Greatest(a, b) == IF a >= b THEN a ELSE b

\* update_story_likes_count, AFTER INSERT / AFTER DELETE ... FOR EACH ROW
update_story_likes_count(tbl, TG_OP, sid) ==
    IF TG_OP = "INSERT"
    THEN UpdateStoryAsClient(tbl, sid, tbl[sid].likes + 1)
    ELSE UpdateStoryAsClient(tbl, sid, Greatest(0, tbl[sid].likes - 1))

NewCall ==
    [pc |-> "check", storyId |-> 0, userId |-> 0, local |-> FALSE,
     isLiking |-> FALSE, previousLikes |-> 0, existingLike |-> 0,
     hasLiked |-> FALSE, result |-> [ok |-> FALSE, likes |-> 0, hasLiked |-> FALSE]]

NullResult == [ok |-> FALSE, likes |-> 0, hasLiked |-> FALSE]

\* the calls in progress: a bag of call frames, as two calls may be in the
\* same position with the same values
CallIds == BagToSet(calls)

\* id UUID DEFAULT gen_random_uuid(): an id no row of story_likes has and no
\* call in progress holds.  An id is only ever compared for equality, so the
\* least such number stands for the fresh value.
gen_random_uuid ==
    LET used == {l.id : l \in story_likes}
                  \cup {c.existingLike : c \in CallIds}
    IN  CHOOSE i \in 1..(Cardinality(used) + 1) :
            /\ i \notin used
            /\ \A j \in 1..(i - 1) : j \in used

\* a call starts, ends, takes a step
StartCall(c) == calls (+) SetToBag({c})

EndCall(c) == calls (-) SetToBag({c})

Step(c, d) == EndCall(c) (+) SetToBag({d})

LocalLikes(list, storyId) ==
    IF \E i \in DOMAIN list : list[i].id = storyId
    THEN LET i == CHOOSE j \in DOMAIN list :
                     /\ list[j].id = storyId
                     /\ \A k \in 1..(j - 1) : list[k].id # storyId
         IN  list[i].likes
    ELSE 0

\* stories.map(s => s.id === storyId ? { ...s, likes } : s)
WithLikes(list, storyId, likes) ==
    [i \in DOMAIN list |->
        IF list[i].id = storyId THEN [list[i] EXCEPT !.likes = likes]
        ELSE list[i]]

\* handleToggleLikeStory up to its await: the optimistic update.  The user
\* of this client is logged in as Me.
handleToggleLikeStory(storyId) ==
    /\ BagCardinality(calls) < MaxCalls
    /\ \E i \in DOMAIN activeStories : activeStories[i].id = storyId
    /\ LET isLiking == storyId \notin likedStoryIds
           previousLikes == LocalLikes(activeStories, storyId)
       IN  /\ likedStoryIds' = IF isLiking THEN likedStoryIds \cup {storyId}
                               ELSE likedStoryIds \ {storyId}
           /\ activeStories' =
                 WithLikes(activeStories, storyId,
                           IF isLiking THEN previousLikes + 1
                           ELSE Greatest(0, previousLikes - 1))
           /\ calls' = StartCall([NewCall EXCEPT !.storyId = storyId,
                                 !.userId = Me, !.local = TRUE,
                                 !.isLiking = isLiking,
                                 !.previousLikes = previousLikes])
    /\ displayedSpots' = ComputeSpots(activeStories')
    /\ UNCHANGED <<now, nextSweep, swept, stories, story_likes, story_reports,
                   inflight, lastReport>>
    /\ UNCHANGED <<refreshVars, viewVars>>
    /\ UNCHANGED <<sessionVars, cameraVars>>

\* another user toggles a like from their own client, on a story that client
\* was given by the store: only the store sees it
OtherUserToggles(storyId, userId) ==
    /\ BagCardinality(calls) < MaxCalls
    /\ userId # Me
    /\ stories[storyId].present
    /\ calls' = StartCall([NewCall EXCEPT !.storyId = storyId,
                                              !.userId = userId])
    /\ UNCHANGED <<now, nextSweep, activeStories, displayedSpots, swept,
                   likedStoryIds, stories, story_likes, story_reports,
                   inflight, lastReport>>
    /\ UNCHANGED <<refreshVars, viewVars>>
    /\ UNCHANGED <<sessionVars, cameraVars>>

\* toggleLike returns a result to its caller.  The answer to this client is
\* on its way until ToggleResponse; the call of another user's client ends
\* here, as that client's state is not part of the model.
Return(c, result) ==
    calls' = IF c.local
             THEN Step(c, [c EXCEPT !.pc = "respond", !.result = result,
                                    !.existingLike = 0, !.hasLiked = FALSE])
             ELSE EndCall(c)

\* toggleLike returns null (every error is caught inside toggleLike)
ReturnNull(c) == Return(c, NullResult)

\* toggleLike: select id from story_likes where story_id, user_id (maybeSingle)
ToggleCheck(c) ==
    /\ c.pc = "check"
    /\ \/ ReturnNull(c)   \* checkError
       \/ LET found == {l \in story_likes : /\ l.story_id = c.storyId
                                            /\ l.user_id = c.userId}
          IN  IF found # {}
              THEN calls' = Step(c, [c EXCEPT
                       !.pc = "delete",
                       !.existingLike = (CHOOSE l \in found : TRUE).id])
              ELSE calls' = Step(c, [c EXCEPT !.pc = "insert"])
    /\ UNCHANGED <<now, nextSweep, activeStories, displayedSpots, swept,
                   likedStoryIds, stories, story_likes, story_reports,
                   inflight, lastReport>>
    /\ UNCHANGED <<refreshVars, viewVars>>
    /\ UNCHANGED <<sessionVars, cameraVars>>

\* toggleLike: delete from story_likes where id = existingLike.id; the
\* trigger runs once for each row deleted
ToggleDelete(c) ==
    /\ c.pc = "delete"
    /\ \/ /\ ReturnNull(c)   \* deleteError
          /\ UNCHANGED <<stories, story_likes>>
       \/ LET gone == {l \in story_likes : l.id = c.existingLike}
          IN  /\ story_likes' = story_likes \ gone
              /\ stories' = IF gone # {}
                            THEN update_story_likes_count(stories, "DELETE",
                                                          c.storyId)
                            ELSE stories
              /\ calls' = Step(c, [c EXCEPT !.pc = "fetch",
                                        !.hasLiked = FALSE])
    /\ UNCHANGED <<now, nextSweep, activeStories, displayedSpots, swept,
                   likedStoryIds, story_reports, inflight,
                   lastReport>>
    /\ UNCHANGED <<refreshVars, viewVars>>
    /\ UNCHANGED <<sessionVars, cameraVars>>

\* toggleLike: insert into story_likes (story_id, user_id)
ToggleInsert(c) ==
    /\ c.pc = "insert"
    /\ \/ \* an error other than 23505: the request failed, or the story is
          \* gone (the foreign key)
          /\ ReturnNull(c)
          /\ UNCHANGED <<stories, story_likes>>
       \/ /\ stories[c.storyId].present
          /\ IF UniqueViolation(c.storyId, c.userId)
             THEN \* insertError.code === '23505'
                  /\ calls' = Step(c, [c EXCEPT !.pc = "raceFetch"])
                  /\ UNCHANGED <<stories, story_likes>>
             ELSE /\ story_likes' = story_likes \cup
                        {[id |-> gen_random_uuid, story_id |-> c.storyId,
                          user_id |-> c.userId]}
                  /\ stories' = update_story_likes_count(stories, "INSERT",
                                                         c.storyId)
                  /\ calls' = Step(c, [c EXCEPT !.pc = "fetch",
                                            !.hasLiked = TRUE])
    /\ UNCHANGED <<now, nextSweep, activeStories, displayedSpots, swept,
                   likedStoryIds, story_reports, inflight, lastReport>>
    /\ UNCHANGED <<refreshVars, viewVars>>
    /\ UNCHANGED <<sessionVars, cameraVars>>

\* toggleLike: select likes from stories where id (single), as the client
FetchLikes(c) ==
    IF RlsCanSelect(stories[c.storyId])
    THEN [ok |-> TRUE, likes |-> stories[c.storyId].likes,
          hasLiked |-> c.hasLiked]
    ELSE NullResult

ToggleFetch(c) ==
    /\ c.pc = "fetch"
    /\ \/ ReturnNull(c)   \* storyError
       \/ Return(c, FetchLikes(c))
    /\ UNCHANGED <<now, nextSweep, activeStories, displayedSpots, swept,
                   likedStoryIds, stories, story_likes, story_reports,
                   inflight, lastReport>>
    /\ UNCHANGED <<refreshVars, viewVars>>
    /\ UNCHANGED <<sessionVars, cameraVars>>

\* toggleLike after 23505: select likes from stories (single)
ToggleRaceFetch(c) ==
    /\ c.pc = "raceFetch"
    /\ \/ calls' = Step(c, [c EXCEPT !.pc = "raceCheck",
                                 !.result = NullResult])
       \/ calls' = Step(c, [c EXCEPT !.pc = "raceCheck",
                                 !.result = FetchLikes(c)])
    /\ UNCHANGED <<now, nextSweep, activeStories, displayedSpots, swept,
                   likedStoryIds, stories, story_likes, story_reports,
                   inflight, lastReport>>
    /\ UNCHANGED <<refreshVars, viewVars>>
    /\ UNCHANGED <<sessionVars, cameraVars>>

\* toggleLike after 23505: select id from story_likes (maybeSingle), then
\* return story ? { likes: story.likes, hasLiked: !!likeCheck } : null
ToggleRaceCheck(c) ==
    /\ c.pc = "raceCheck"
    /\ \E likeCheck \in {FALSE, UniqueViolation(c.storyId,
                                                c.userId)} :
          Return(c, IF c.result.ok
                    THEN [c.result EXCEPT !.hasLiked = likeCheck]
                    ELSE NullResult)
    /\ UNCHANGED <<now, nextSweep, activeStories, displayedSpots, swept,
                   likedStoryIds, stories, story_likes, story_reports,
                   inflight, lastReport>>
    /\ UNCHANGED <<refreshVars, viewVars>>
    /\ UNCHANGED <<sessionVars, cameraVars>>

\* handleToggleLikeStory after its await.  toggleLike never throws, so the
\* catch block of the handler (the revert) is not reached: with a result the
\* server's values are taken, with null nothing is done.
ToggleResponse(c) ==
    /\ c.pc = "respond"
    /\ IF c.local /\ c.result.ok
       THEN /\ activeStories' = WithLikes(activeStories, c.storyId,
                                          c.result.likes)
            /\ likedStoryIds' =
                  IF c.result.hasLiked
                  THEN likedStoryIds \cup {c.storyId}
                  ELSE likedStoryIds \ {c.storyId}
       ELSE UNCHANGED <<activeStories, likedStoryIds>>
    /\ displayedSpots' = ComputeSpots(activeStories')
    /\ calls' = EndCall(c)
    /\ UNCHANGED <<now, nextSweep, swept, stories, story_likes, story_reports,
                   inflight, lastReport>>
    /\ UNCHANGED <<refreshVars, viewVars>>
    /\ UNCHANGED <<sessionVars, cameraVars>>

(***************************************************************************)
(* SpecLikes: users toggle likes on the one story the store holds, this    *)
(* client through handleToggleLikeStory.                                   *)
(***************************************************************************)
LikeUsers == 1..MaxLikeUsers

InitLikes ==
    /\ now = 0
    /\ nextSweep = SweepInterval
    /\ stories = [id \in StoryIds |->
                     IF id = 1 THEN FeedRow(1) ELSE NoRow]
    /\ activeStories = getActiveStories(NoCountry, TRUE)
    /\ displayedSpots = ComputeSpots(activeStories)
    /\ swept = NoSweep
    /\ likedStoryIds = {}
    /\ story_likes = {}
    /\ story_reports = {}
    /\ inflight = <<>>
    /\ calls = EmptyBag
    /\ lastReport = NoReport
    /\ InitView
    /\ InitSession
    /\ InitCamera

NextLikes ==
    \/ \E sid \in StoryIds : handleToggleLikeStory(sid)
    \/ \E sid \in StoryIds, uid \in LikeUsers : OtherUserToggles(sid, uid)
    \/ \E c \in CallIds : ToggleCheck(c)
    \/ \E c \in CallIds : ToggleDelete(c)
    \/ \E c \in CallIds : ToggleInsert(c)
    \/ \E c \in CallIds : ToggleFetch(c)
    \/ \E c \in CallIds : ToggleRaceFetch(c)
    \/ \E c \in CallIds : ToggleRaceCheck(c)
    \/ \E c \in CallIds : ToggleResponse(c)

SpecLikes == InitLikes /\ [][NextLikes]_vars

(***************************************************************************)
(* SpecLikeStore: the store's side of the like toggles alone, while time   *)
(* passes.  The calls are those of other clients, which take the same      *)
(* steps of toggleLike as the calls of this client and leave this          *)
(* client's state alone.                                                   *)
(***************************************************************************)
NextLikeStore ==
    \/ Tick
    \/ \E sid \in StoryIds, uid \in LikeUsers : OtherUserToggles(sid, uid)
    \/ \E c \in CallIds : ToggleCheck(c)
    \/ \E c \in CallIds : ToggleDelete(c)
    \/ \E c \in CallIds : ToggleInsert(c)
    \/ \E c \in CallIds : ToggleFetch(c)
    \/ \E c \in CallIds : ToggleRaceFetch(c)
    \/ \E c \in CallIds : ToggleRaceCheck(c)

SpecLikeStore == InitLikes /\ [][NextLikeStore]_vars

(***************************************************************************)
(* SpecLikesClock: SpecLikes while time passes, so that the toggles reach  *)
(* a story before and after its expires_at.                                *)
(***************************************************************************)
NextLikesClock == Tick \/ NextLikes

SpecLikesClock == InitLikes /\ [][NextLikesClock]_vars

(***************************************************************************)
(* Claims on expiry.                                                       *)
(***************************************************************************)
\* C3: after the expiry sweep has run at instant now, activeStories holds
\* exactly the stories that were there before it and have expiresAt > now, in
\* their order: a story with expiresAt = now is gone, and an empty list stays
\* empty.
C3_SweepKeepsExactlyUnexpired ==
    swept.ran =>
        /\ \A story \in Range(swept.before) :
              story \in Range(swept.after) <=> story.expiresAt > swept.at
        /\ Range(swept.after) \subseteq Range(swept.before)
        /\ Len(swept.after) =
              Cardinality({i \in DOMAIN swept.before :
                              swept.before[i].expiresAt > swept.at})
        /\ (swept.before = <<>> => swept.after = <<>>)

\* C3 witness: a sweep that met a story expiring at the very instant of the
\* sweep next to a story that expires later.
C3_Witness ==
    /\ swept.ran
    /\ \E a, b \in Range(swept.before) :
          /\ a.expiresAt = swept.at
          /\ b.expiresAt > swept.at
          /\ a \notin Range(swept.after)
          /\ b \in Range(swept.after)

\* C4: at every clustering pass no spot has a member with expiresAt <= now.
C4_NoExpiredMember ==
    \A k \in DOMAIN displayedSpots :
        \A m \in Members(displayedSpots[k]) : m.expiresAt > now

(***************************************************************************)
(* Claims on moderation.                                                   *)
(***************************************************************************)
\* C5: no story the store has marked hidden is in activeStories or is a
\* member of a spot.
C5_NoHiddenStoryShown ==
    /\ \A i \in DOMAIN activeStories : ~stories[activeStories[i].id].is_hidden
    /\ \A k \in DOMAIN displayedSpots :
          \A m \in Members(displayedSpots[k]) : ~stories[m.id].is_hidden

ReportsOf(sid) == {r \in story_reports : r.story_id = sid}

\* C9: once a story has 3 reports from distinct users it is hidden: is_hidden
\* is true after the third report_story call, and getActiveStories does not
\* return the story any more.
C9_HiddenAtThreeReports ==
    \A sid \in StoryIds :
        Cardinality(ReportsOf(sid)) >= 3 =>
            /\ stories[sid].is_hidden
            /\ \A i \in DOMAIN getActiveStories(NoCountry, TRUE) :
                  getActiveStories(NoCountry, TRUE)[i].id # sid

(***************************************************************************)
(* Claims on likes.                                                        *)
(***************************************************************************)
\* C7: the store never holds more than one like record for a pair of a
\* story and a user, however the toggleLike calls interleave.
C7_OneLikePerStoryAndUser ==
    \A l1, l2 \in story_likes :
        (l1.story_id = l2.story_id /\ l1.user_id = l2.user_id) => l1 = l2

\* C7 witness: two calls of the same user on the same story ran together,
\* both found no like, one inserted its record and the other one's insert was
\* refused as a duplicate.
C7_Witness ==
    \E c \in CallIds :
        /\ c.pc = "raceFetch"
        /\ \E l \in story_likes :
              l.story_id = c.storyId /\ l.user_id = c.userId

\* C8: when a like toggle of this client fails to be saved (toggleLike ends
\* without a result), the handler leaves the story's local like count and its
\* membership in likedStoryIds as they were before the toggle.
C8_FailedToggleRolledBack ==
    [][\A c \in CallIds :
          (/\ c.pc = "respond"
           /\ c.local
           /\ ~c.result.ok
           /\ calls' = EndCall(c))
          => /\ LocalLikes(activeStories', c.storyId) = c.previousLikes
             /\ (c.storyId \in likedStoryIds') = ~c.isLiking]_vars

\* C10: each story's likes counter in the store equals the number of like
\* records of that story.
C10_CounterEqualsRecords ==
    \A sid \in StoryIds :
        stories[sid].present =>
            stories[sid].likes = Cardinality(LikesOf(sid))

(***************************************************************************)
(* Claims on the order, the extent, the score and the id of the spots.     *)
(***************************************************************************)
\* the rows of the store and the stories of the input lists are numbered in
\* the order of their creation
CreatedAt(story) == story.id

\* C13: in every spot the members are ordered by like count descending and,
\* among members of equal like count, by creation time descending.
C13_MembersByLikesThenAge ==
    \A k \in DOMAIN displayedSpots :
        LET m == displayedSpots[k].activeStories
        IN  \A i, j \in DOMAIN m :
                i < j => \/ m[i].likes > m[j].likes
                         \/ /\ m[i].likes = m[j].likes
                            /\ CreatedAt(m[i]) >= CreatedAt(m[j])

\* the story was handled by the grouping loop after the first member of the spot
AfterAnchor(i, spot) ==
    \E j \in 1..(i - 1) : activeStories[j] = Anchor(spot)

\* C14: every member of every spot is nearer than 0.0015 degree to the first
\* member of its spot, and a story that is not that near to the first member
\* of any spot formed before it is the first member of a spot of its own.
C14_MembersNearAnchor ==
    /\ \A k \in DOMAIN displayedSpots :
          \A m \in Members(displayedSpots[k]) : Near(m, Anchor(displayedSpots[k]))
    /\ \A i \in DOMAIN activeStories :
          (\A k \in DOMAIN displayedSpots :
                AfterAnchor(i, displayedSpots[k])
                   => ~Near(activeStories[i], Anchor(displayedSpots[k])))
             => \E k \in DOMAIN displayedSpots :
                   Anchor(displayedSpots[k]) = activeStories[i]

\* C14 witness: the stories at (9.515, -13.710) and at the corner
\* (9.5154, -13.7096) of its cell are in one spot, the story at
\* (9.620, -13.630) is in another.
C14_Witness ==
    \E k1, k2 \in DOMAIN displayedSpots :
        /\ k1 # k2
        /\ \E a, b \in Members(displayedSpots[k1]) :
              /\ a.latitude = 95150 /\ a.longitude = 0 - 137100
              /\ b.latitude = 95154 /\ b.longitude = 0 - 137096
        /\ Anchor(displayedSpots[k2]).latitude = 96200
        /\ Anchor(displayedSpots[k2]).longitude = 0 - 136300

\* the score of the spot of this id among the spots, if there is one
HasSpot(spots, id) == \E k \in DOMAIN spots : spots[k].id = id

ScoreOf(spots, id) ==
    (CHOOSE spot \in Range(spots) : spot.id = id).vibeScore

\* a story not yet in the feed, as handlePostSuccess puts it first in the list
NewStories == CellStories(0)

\* C15: a spot's vibeScore does not decrease when a story is added to the
\* feed while the others stay, nor when a member gets one more like.
C15_ScoreMonotone ==
    \A k \in DOMAIN displayedSpots :
        LET id == displayedSpots[k].id
            before == displayedSpots[k].vibeScore
        IN  /\ \A s \in NewStories :
                  LET spots == ComputeSpots(<<s>> \o activeStories)
                  IN  HasSpot(spots, id) /\ ScoreOf(spots, id) >= before
            /\ \A i \in DOMAIN activeStories :
                  LET spots == ComputeSpots(
                                  WithLikes(activeStories, activeStories[i].id,
                                            activeStories[i].likes + 1))
                  IN  HasSpot(spots, id) /\ ScoreOf(spots, id) >= before

\* C15 witness: a spot of two stories, one of them with likes.
C15_Witness ==
    \E k \in DOMAIN displayedSpots :
        /\ Len(displayedSpots[k].activeStories) = 2
        /\ displayedSpots[k].vibeScore > 2 * PointsPerStory

MemberIds(spot) == {m.id : m \in Members(spot)}

Orderings(n) ==
    {p \in [1..n -> 1..n] : \A i, j \in 1..n : p[i] = p[j] => i = j}

\* C20: a spot's id is determined by its members: the spots computed from
\* the same stories in any other order, or with one more like on any story,
\* give the spot of the same members the same id.
C20_SpotIdOfMembers ==
    LET n == Len(activeStories)
        SameIds(spots) ==
            \A k \in DOMAIN displayedSpots : \A k2 \in DOMAIN spots :
                MemberIds(spots[k2]) = MemberIds(displayedSpots[k])
                    => spots[k2].id = displayedSpots[k].id
    IN  /\ \A p \in Orderings(n) :
              SameIds(ComputeSpots([i \in 1..n |-> activeStories[p[i]]]))
        /\ \A i \in 1..n :
              SameIds(ComputeSpots(
                         WithLikes(activeStories, activeStories[i].id,
                                   activeStories[i].likes + 1)))

\* C20 witness: a feed of three stories in two spots, one of two members.
C20_Witness ==
    /\ Len(activeStories) = 3
    /\ \E k \in DOMAIN displayedSpots :
          /\ Len(displayedSpots[k].activeStories) = 2
          /\ displayedSpots[k].activeStories[1].likes > 0
    /\ \E k \in DOMAIN displayedSpots :
          Len(displayedSpots[k].activeStories) = 1

(***************************************************************************)
(* MapView: the activity level of a spot, which sets the size, the colour  *)
(* and the pulse of its marker.                                            *)
(***************************************************************************)
HotScore == 40

ActiveScore == 10

\* the getSpotActivityLevel of the source with its first test strict
getSpotActivityLevelAbove(s) ==
    IF s > HotScore THEN "HOT"
    ELSE IF s > ActiveScore THEN "ACTIVE"
    ELSE "CALM"

getSpotActivityLevel(s) ==
    IF s >= HotScore THEN "HOT"
    ELSE IF s > ActiveScore THEN "ACTIVE"
    ELSE "CALM"

\* spots.map(spot => ...): const activity = getSpotActivityLevel(spot.vibeScore)
MapMarker ==
    /\ activity' = getSpotActivityLevel(score)
    /\ UNCHANGED <<now, nextSweep, activeStories, displayedSpots, swept,
                   likedStoryIds, stories, story_likes, story_reports,
                   inflight, calls, lastReport, refreshVars, selectedFilter,
                   userLocation, score>>
    /\ UNCHANGED <<sessionVars, cameraVars>>

(***************************************************************************)
(* SpecMarkers: getSpotActivityLevel over every score up to MaxScore, as   *)
(* the vibeScore of the spot handed to the marker.                         *)
(***************************************************************************)
MaxScore == 60

InitMarkers ==
    /\ now = 0
    /\ nextSweep = 0
    /\ activeStories = <<>>
    /\ displayedSpots = <<>>
    /\ swept = NoSweep
    /\ likedStoryIds = {}
    /\ stories = [id \in StoryIds |-> NoRow]
    /\ story_likes = {}
    /\ story_reports = {}
    /\ inflight = <<>>
    /\ calls = EmptyBag
    /\ lastReport = NoReport
    /\ isRefreshing = FALSE
    /\ refreshTimeout = FALSE
    /\ lastRefreshTime = 0
    /\ selectedCountryCode = NoCountry
    /\ selectedFilter = All
    /\ userLocation = NoLocation
    /\ score \in 0..MaxScore
    /\ activity = ""
    /\ InitSession
    /\ InitCamera

NextMarkers == MapMarker

SpecMarkers == InitMarkers /\ [][NextMarkers]_vars

\* C19: the marker of a spot is HOT exactly when the score is at least 40,
\* ACTIVE exactly when it is above 10 and below 40, CALM exactly when it is
\* at most 10.
C19_ActivityLevels ==
    activity # "" =>
        /\ activity = "HOT" <=> score >= 40
        /\ activity = "ACTIVE" <=> (score > 10 /\ score < 40)
        /\ activity = "CALM" <=> score <= 10

\* C19 witness: the marker of a spot whose score is exactly 40 is HOT.
C19_Witness == score = 40 /\ activity = "HOT"

(***************************************************************************)
(* The filter of the feed.  A string is the sequence of its characters, so *)
(* that toLowerCase and includes are computed character by character.      *)
(***************************************************************************)
NearMe == <<"N", "e", "a", "r", " ", "M", "e">>

Trending == <<"T", "r", "e", "n", "d", "i", "n", "g">>

\* export const FILTERS = ['All', 'Near Me', 'Trending']
FILTERS == <<All, NearMe, Trending>>

UpperCaseLetters ==
    <<"A", "B", "C", "D", "E", "F", "G", "H", "I", "J", "K", "L", "M",
      "N", "O", "P", "Q", "R", "S", "T", "U", "V", "W", "X", "Y", "Z">>

LowerCaseLetters ==
    <<"a", "b", "c", "d", "e", "f", "g", "h", "i", "j", "k", "l", "m",
      "n", "o", "p", "q", "r", "s", "t", "u", "v", "w", "x", "y", "z">>

\* toLowerCase that leaves the string as it is
toLowerCaseKept(str) == str

\* String.prototype.toLowerCase, on the letters A to Z
toLowerCase(str) ==
    [i \in DOMAIN str |->
        IF \E k \in DOMAIN UpperCaseLetters : UpperCaseLetters[k] = str[i]
        THEN LowerCaseLetters[CHOOSE k \in DOMAIN UpperCaseLetters :
                                 UpperCaseLetters[k] = str[i]]
        ELSE str[i]]

\* String.prototype.includes: searchString occurs at some position of str
includes(str, searchString) ==
    \E k \in 0..(Len(str) - Len(searchString)) :
        SubSeq(str, k + 1, k + Len(searchString)) = searchString

\* story.vibeTags.some(tag =>
\*     tag.toLowerCase().includes(selectedFilter.toLowerCase()))
SomeTagIncludes(story, filter) ==
    \E t \in DOMAIN story.vibeTags :
        includes(toLowerCase(story.vibeTags[t]), toLowerCase(filter))

\* the useMemo filteredStories, a function of activeStories and selectedFilter
filteredStories ==
    IF selectedFilter = All THEN activeStories
    ELSE SelectSeq(activeStories,
                   LAMBDA story : SomeTagIncludes(story, selectedFilter))

\* the button of a filter: onClick={() => setSelectedFilter(filter)}
setSelectedFilter(filter) ==
    /\ selectedFilter' = filter
    /\ UNCHANGED <<now, nextSweep, activeStories, displayedSpots, swept,
                   likedStoryIds, stories, story_likes, story_reports,
                   inflight, calls, lastReport, refreshVars, userLocation,
                   score, activity>>
    /\ UNCHANGED <<sessionVars, cameraVars>>

\* navigator.geolocation.getCurrentPosition succeeds:
\* setUserLocation({ lat: latitude, lng: longitude })
getCurrentPosition(pos) ==
    /\ userLocation = NoLocation
    /\ userLocation' = pos
    /\ UNCHANGED <<now, nextSweep, activeStories, displayedSpots, swept,
                   likedStoryIds, stories, story_likes, story_reports,
                   inflight, calls, lastReport, refreshVars, selectedFilter,
                   score, activity>>
    /\ UNCHANGED <<sessionVars, cameraVars>>

(***************************************************************************)
(* SpecFilter: the filter buttons over every feed of up to MaxStories      *)
(* stories of one place, each with one of the tag lists below and with no  *)
(* like or many.                                                           *)
(***************************************************************************)
TagLists ==
    { <<>>,
      << <<"#", "t", "r", "e", "n", "d", "i", "n", "g">> >>,
      << <<"#", "C", "h", "i", "l", "l">>,
         <<"N", "E", "A", "R", " ", "M", "E">> >>,
      << <<"T", "r", "e", "n", "d">> >> }

TaggedStories(id) ==
    { [id |-> id, userId |-> Me, latitude |-> 95150,
       longitude |-> 0 - 137100, locationName |-> "Plage", likes |-> k,
       expiresAt |-> 1, vibeTags |-> tags] :
         k \in LikeCounts, tags \in TagLists }

TaggedLists ==
    UNION { {l \in [1..n -> UNION {TaggedStories(id) : id \in StoryIds}] :
                \A i \in 1..n : l[i].id = i} : n \in 0..MaxStories }

Positions == {[lat |-> 95150, lng |-> 0 - 137100]}

InitFilter ==
    /\ now = 0
    /\ nextSweep = 0
    /\ activeStories \in TaggedLists
    /\ displayedSpots = ComputeSpots(activeStories)
    /\ swept = NoSweep
    /\ likedStoryIds = {}
    /\ stories = [id \in StoryIds |-> NoRow]
    /\ story_likes = {}
    /\ story_reports = {}
    /\ inflight = <<>>
    /\ calls = EmptyBag
    /\ lastReport = NoReport
    /\ InitView
    /\ InitSession
    /\ InitCamera

NextFilter ==
    \/ \E i \in DOMAIN FILTERS : setSelectedFilter(FILTERS[i])
    \/ \E pos \in Positions : getCurrentPosition(pos)

SpecFilter == InitFilter /\ [][NextFilter]_vars

(***************************************************************************)
(* Claims on the filter of the feed.                                       *)
(***************************************************************************)
\* the two characters are the same letter, whatever their case
SameLetter(a, b) ==
    \/ a = b
    \/ \E k \in DOMAIN UpperCaseLetters :
          {a, b} = {UpperCaseLetters[k], LowerCaseLetters[k]}

\* the tag contains the filter string at some position, case-insensitively
ContainsIgnoringCase(tag, filter) ==
    \E k \in 0..(Len(tag) - Len(filter)) :
        \A i \in 1..Len(filter) : SameLetter(tag[k + i], filter[i])

\* the vibeScore of the spot the story is a member of
SpotScoreOf(story) ==
    LET k == CHOOSE k \in DOMAIN displayedSpots :
                 story.id \in MemberIds(displayedSpots[k])
    IN  displayedSpots[k].vibeScore

\* C16: with the filter Trending, the view holds every story of the feed
\* exactly once, by descending vibeScore of their spots, and stories of
\* equal score in the order they have in the feed.
C16_TrendingShowsAllByScore ==
    selectedFilter = Trending =>
        /\ \A i \in DOMAIN activeStories :
              Cardinality({j \in DOMAIN filteredStories :
                              filteredStories[j].id = activeStories[i].id}) = 1
        /\ \A j1, j2 \in DOMAIN filteredStories :
              j1 < j2 => \/ SpotScoreOf(filteredStories[j1])
                               > SpotScoreOf(filteredStories[j2])
                         \/ /\ SpotScoreOf(filteredStories[j1])
                                  = SpotScoreOf(filteredStories[j2])
                            /\ \E i1, i2 \in DOMAIN activeStories :
                                  /\ i1 < i2
                                  /\ activeStories[i1] = filteredStories[j1]
                                  /\ activeStories[i2] = filteredStories[j2]

\* C17: with the filter Near Me and no position of the user, the view is
\* the feed itself: every story, in the same order.
C17_NearMeWithoutPosition ==
    (selectedFilter = NearMe /\ userLocation = NoLocation) =>
        filteredStories = activeStories

\* C18: with the filter All the view is the feed itself; with any other
\* filter the view is the feed, in its order, without the stories none of
\* whose tags contains the filter string case-insensitively.
C18_TagFilter ==
    /\ selectedFilter = All => filteredStories = activeStories
    /\ selectedFilter # All =>
          filteredStories =
              SelectSeq(activeStories,
                        LAMBDA story :
                            \E t \in DOMAIN story.vibeTags :
                                ContainsIgnoringCase(story.vibeTags[t],
                                                     selectedFilter))

\* C18 witness: the filter Near Me keeps a story tagged NEAR ME and drops
\* another story of the feed.
C18_Witness ==
    /\ selectedFilter = NearMe
    /\ Len(filteredStories) > 0
    /\ Len(filteredStories) < Len(activeStories)

(***************************************************************************)
(* The refresh of the feed: the refresh button and the pull-to-refresh     *)
(* (handleRefresh), the realtime subscription with its debounce, and the   *)
(* country selector.                                                       *)
(***************************************************************************)
MaxLoads == 2

\* timeSinceLastRefresh > 5 (seconds): more than one tick of the clock
DebounceTicks == 1

\* handleRefresh: if (isRefreshing) return; setIsRefreshing(true); then
\* Promise.all([loadStories(), loadUserLikes()]) is awaited.  The change of
\* isRefreshing re-runs the effect of the subscription, whose cleanup clears
\* the pending timer.
handleRefresh ==
    /\ ~isRefreshing
    /\ Len(inflight) < MaxLoads
    /\ isRefreshing' = TRUE
    /\ refreshTimeout' = FALSE
    /\ \E ok \in BOOLEAN :
           inflight' = Append(inflight,
                              loadStories("manual", selectedCountryCode, ok))
    /\ UNCHANGED <<now, nextSweep, activeStories, displayedSpots, swept,
                   likedStoryIds, stories, story_likes, story_reports,
                   calls, lastReport, lastRefreshTime, selectedCountryCode,
                   viewVars>>
    /\ UNCHANGED <<sessionVars, cameraVars>>

\* the callback of the subscription, on any change of the table stories by
\* any client: if the last load ended more than 5 seconds ago, the timer of
\* one second is set anew
postgres_changes ==
    /\ now - lastRefreshTime > DebounceTicks
    /\ refreshTimeout' = TRUE
    /\ UNCHANGED <<now, nextSweep, activeStories, displayedSpots, swept,
                   likedStoryIds, stories, story_likes, story_reports,
                   inflight, calls, lastReport, isRefreshing,
                   lastRefreshTime, selectedCountryCode, viewVars>>
    /\ UNCHANGED <<sessionVars, cameraVars>>

\* the timer fires: if (!isRefreshing) loadStories()
refreshTimeoutFires ==
    /\ refreshTimeout
    /\ refreshTimeout' = FALSE
    /\ IF ~isRefreshing
       THEN /\ Len(inflight) < MaxLoads
            /\ \E ok \in BOOLEAN :
                   inflight' =
                       Append(inflight,
                              loadStories("realtime", selectedCountryCode, ok))
       ELSE UNCHANGED inflight
    /\ UNCHANGED <<now, nextSweep, activeStories, displayedSpots, swept,
                   likedStoryIds, stories, story_likes, story_reports,
                   calls, lastReport, isRefreshing, lastRefreshTime,
                   selectedCountryCode, viewVars>>
    /\ UNCHANGED <<sessionVars, cameraVars>>

\* handleCountryChange: setSelectedCountryCode(countryCode), then
\* loadStories(), the closure of the render in which the selector was shown.
\* When the country changes, the next render makes a new loadStories, so the
\* effect [loadStories] calls it and the effect of the subscription runs
\* again, its cleanup clearing the pending timer.
handleCountryChange(countryCode) ==
    /\ selectedCountryCode' = countryCode
    /\ \E ok1, ok2 \in BOOLEAN :
          LET first == Append(inflight,
                              loadStories("country", selectedCountryCode, ok1))
          IN  IF countryCode # selectedCountryCode
              THEN /\ Len(inflight) + 2 <= MaxLoads
                   /\ inflight' =
                          Append(first, loadStories("effect", countryCode, ok2))
                   /\ refreshTimeout' = FALSE
              ELSE /\ Len(inflight) < MaxLoads
                   /\ inflight' = first
                   /\ UNCHANGED refreshTimeout
    /\ UNCHANGED <<now, nextSweep, activeStories, displayedSpots, swept,
                   likedStoryIds, stories, story_likes, story_reports,
                   calls, lastReport, isRefreshing, lastRefreshTime,
                   viewVars>>
    /\ UNCHANGED <<sessionVars, cameraVars>>

(***************************************************************************)
(* SpecRefresh: one client from its mount on, over a store with a story of *)
(* each of two countries that do not expire within MaxTime.                *)
(***************************************************************************)
Countries == {"GN", "FR"}

CountryRow(id) ==
    IF id = 1 THEN [FeedRow(MaxTime + 1) EXCEPT !.country_code = "GN"]
    ELSE IF id = 2 THEN [FeedRow(MaxTime + 1) EXCEPT !.country_code = "FR"]
    ELSE NoRow

InitRefresh ==
    /\ now = 0
    /\ nextSweep = SweepInterval
    /\ activeStories = <<>>
    /\ displayedSpots = ComputeSpots(activeStories)
    /\ swept = NoSweep
    /\ likedStoryIds = {}
    /\ stories = [id \in StoryIds |-> CountryRow(id)]
    /\ story_likes = {}
    /\ story_reports = {}
    /\ InitView
    /\ InitSession
    /\ InitCamera
    /\ \E ok \in BOOLEAN :
          inflight = <<loadStories("effect", selectedCountryCode, ok)>>
    /\ calls = EmptyBag
    /\ lastReport = NoReport

NextRefresh ==
    \/ Tick
    \/ CleanupLoop
    \/ handleRefresh
    \/ postgres_changes
    \/ refreshTimeoutFires
    \/ \E c \in Countries \cup {NoCountry} : handleCountryChange(c)
    \/ loadStoriesResponse

SpecRefresh == InitRefresh /\ [][NextRefresh]_vars

(***************************************************************************)
(* Claims on the refresh of the feed.                                      *)
(***************************************************************************)
\* the loads in flight that a refresh started: the manual refresh or the
\* reload of the realtime subscription
RefreshesInFlight ==
    {i \in DOMAIN inflight : inflight[i].by \in {"manual", "realtime"}}

\* C11: at most one refresh of the stories is in flight at a time, manual
\* or realtime.
C11_OneRefreshInFlight == Cardinality(RefreshesInFlight) <= 1

\* C12: when no load is in flight, activeStories is the answer of the store
\* for the selected country (or, on an error of the query, empty), never
\* the answer for the country selected before.
C12_FeedOfSelectedCountry ==
    inflight = <<>> =>
        \E ok \in BOOLEAN :
            activeStories = loadStories("effect", selectedCountryCode, ok).stories

(***************************************************************************)
(* Claims on the order of the feed.                                        *)
(***************************************************************************)
\* what a spot is to the map, apart from the order of its members
SpotSummary(spot) ==
    [members |-> Members(spot), id |-> spot.id, vibeScore |-> spot.vibeScore]

SpotSummaries(spots) == {SpotSummary(spots[k]) : k \in DOMAIN spots}

\* C28: the spots computed from the stories of the feed in any other order
\* are the same spots: the same member sets, each with the same id and the
\* same vibeScore.
C28_SpotsWhateverTheOrder ==
    LET n == Len(activeStories)
    IN  \A p \in Orderings(n) :
            SpotSummaries(ComputeSpots([i \in 1..n |-> activeStories[p[i]]]))
                = SpotSummaries(displayedSpots)

\* C28 witness: a feed of three stories, two of them in one spot with
\* different numbers of likes, the third in another spot.
C28_Witness ==
    /\ Len(activeStories) = 3
    /\ Len(displayedSpots) = 2
    /\ \E k \in DOMAIN displayedSpots :
          /\ Len(displayedSpots[k].activeStories) = 2
          /\ displayedSpots[k].activeStories[1].likes
                # displayedSpots[k].activeStories[2].likes

(***************************************************************************)
(* report_story called by several clients at once.  Each call is one       *)
(* transaction at READ COMMITTED: its two EXISTS tests read what is        *)
(* committed when they run; its INSERT, with the triggers and the final    *)
(* SELECT, takes effect at the commit.  An INSERT of a pair (story_id,     *)
(* user_id) that another transaction has inserted waits for that           *)
(* transaction and then fails on UNIQUE(story_id, user_id): error 23505    *)
(* aborts the function, and supabase.rpc answers with error instead of     *)
(* data.                                                                   *)
(***************************************************************************)
\* UNIQUE(story_id, user_id) on story_reports
ReportUniqueViolation(p_story_id, p_user_id) ==
    \E r \in story_reports :
        r.story_id = p_story_id /\ r.user_id = p_user_id

\* report_story up to its INSERT: the two tests
ReportCheck(p_story_id, p_user_id) ==
    /\ BagCardinality(calls) < MaxCalls
    /\ IF \E r \in story_reports :
             r.story_id = p_story_id /\ r.user_id = p_user_id
       THEN /\ lastReport' = [success |-> FALSE, error |-> "Already reported",
                              reports_count |-> 0, is_hidden |-> FALSE]
            /\ UNCHANGED calls
       ELSE IF ~(stories[p_story_id].present
                   /\ stories[p_story_id].expires_at > now)
       THEN /\ lastReport' = [success |-> FALSE,
                              error |-> "Story not found or expired",
                              reports_count |-> 0, is_hidden |-> FALSE]
            /\ UNCHANGED calls
       ELSE /\ calls' = StartCall([NewCall EXCEPT !.pc = "report",
                                                  !.storyId = p_story_id,
                                                  !.userId = p_user_id])
            /\ UNCHANGED lastReport
    /\ UNCHANGED <<now, nextSweep, activeStories, displayedSpots, swept,
                   likedStoryIds, stories, story_likes, story_reports,
                   inflight, refreshVars, viewVars>>
    /\ UNCHANGED <<sessionVars, cameraVars>>

\* report_story from its INSERT on, and what moderationService.reportStory
\* makes of the answer: on error, { success: false } with the message
\* 'Erreur lors du signalement'
ReportInsert(c) ==
    /\ c.pc = "report"
    /\ calls' = EndCall(c)
    /\ IF ReportUniqueViolation(c.storyId, c.userId)
       THEN /\ lastReport' = [success |-> FALSE, error |-> "23505",
                              reports_count |-> 0, is_hidden |-> FALSE]
            /\ UNCHANGED <<stories, story_reports>>
       ELSE /\ story_reports' = story_reports \cup
                   {[story_id |-> c.storyId, user_id |-> c.userId]}
            /\ stories' = AfterInsertOnStoryReports(stories, c.storyId)
            /\ lastReport' =
                   [success |-> TRUE, error |-> "",
                    reports_count |-> stories'[c.storyId].reports_count,
                    is_hidden |-> stories'[c.storyId].is_hidden]
    /\ UNCHANGED <<now, nextSweep, activeStories, displayedSpots, swept,
                   likedStoryIds, story_likes, inflight, refreshVars,
                   viewVars>>
    /\ UNCHANGED <<sessionVars, cameraVars>>

(***************************************************************************)
(* SpecReports: the users report the stories of the store, their calls     *)
(* overlapping.                                                            *)
(***************************************************************************)
NextReports ==
    \/ \E sid \in ReportedStoryIds : \E uid \in Users : ReportCheck(sid, uid)
    \/ \E c \in CallIds : ReportInsert(c)

SpecReports == InitModeration /\ [][NextReports]_vars

\* C21: a report of a story by a user who has a report of it on record is
\* answered with success = false and 'Already reported', and changes neither
\* the story nor the reports on record, whether the first report was
\* complete when the second began or not.
C21_SecondReportRejected ==
    [][\A sid \in ReportedStoryIds : \A uid \in Users :
          (/\ [story_id |-> sid, user_id |-> uid] \in story_reports
           /\ \/ ReportCheck(sid, uid)
              \/ \E c \in CallIds :
                    c.storyId = sid /\ c.userId = uid /\ ReportInsert(c))
          => /\ ~lastReport'.success
             /\ lastReport'.error = "Already reported"
             /\ UNCHANGED <<stories, story_reports>>]_vars

\* C22: no two reloads started by the realtime subscription start less than
\* 5 seconds apart: none starts within the tick of the clock in which
\* another, still awaiting the store, started.
C22_AutomaticReloadsApart ==
    \A i, j \in DOMAIN inflight :
        (/\ i # j
         /\ inflight[i].by = "realtime"
         /\ inflight[j].by = "realtime") => inflight[i].at # inflight[j].at

(***************************************************************************)
(* SpecOwnLikes: this client alone toggles its like on the one story of    *)
(* the store, its calls overlapping, in the behaviours in which every call *)
(* of toggleLike returns a result (none returns null).                     *)
(***************************************************************************)
AllTogglesSucceed ==
    \A c \in CallIds : c.pc = "respond" => c.result.ok

NextOwnLikes ==
    \/ \E sid \in StoryIds : handleToggleLikeStory(sid)
    \/ \E c \in CallIds : ToggleCheck(c) /\ AllTogglesSucceed'
    \/ \E c \in CallIds : ToggleDelete(c) /\ AllTogglesSucceed'
    \/ \E c \in CallIds : ToggleInsert(c) /\ AllTogglesSucceed'
    \/ \E c \in CallIds : ToggleFetch(c) /\ AllTogglesSucceed'
    \/ \E c \in CallIds : ToggleRaceFetch(c)
    \/ \E c \in CallIds : ToggleRaceCheck(c) /\ AllTogglesSucceed'
    \/ \E c \in CallIds : ToggleResponse(c)

SpecOwnLikes == InitLikes /\ [][NextOwnLikes]_vars

\* C26: when no toggle of this client on a story is in progress, the story
\* is in likedStoryIds exactly if the store has the user's like of it on
\* record, and its likes in the feed are the counter of the store.
C26_TogglesSettleOnTheStore ==
    \A i \in DOMAIN activeStories :
        LET sid == activeStories[i].id
        IN  (\A c \in CallIds : c.storyId # sid) =>
                /\ sid \in likedStoryIds
                      <=> \E l \in story_likes :
                             l.story_id = sid /\ l.user_id = Me
                /\ activeStories[i].likes = stories[sid].likes

(***************************************************************************)
(* CreateView, mounted while currentView is POST: the camera.              *)
(* The effect "Initialize Camera" has the dependencies mode, capturedMedia *)
(* and facingMode, not stream: startCamera and the cleanup of the effect   *)
(* see the stream of the render in which the effect last ran.              *)
(***************************************************************************)
MaxRequests == 2

MaxStreams == 2

\* a MediaStream that getUserMedia has not given out before: streams are
\* only compared with each other, so the least number no stream in use has
\* stands for it
NewStream ==
    LET used == liveStreams \cup {stream, effectStream}
    IN  CHOOSE m \in 1..(Cardinality(used) + 1) :
            m \notin used /\ \A k \in 1..(m - 1) : k \in used

\* stream.getTracks().forEach(track => track.stop()), if (stream)
StopTracks(streams, m) == streams \ {m}

\* the cleanup of the effect: mounted = false for the requests the effect
\* made
Unmounted(requests) ==
    [i \in DOMAIN requests |-> [requests[i] EXCEPT !.mounted = FALSE]]

\* navigator.mediaDevices.getUserMedia(...) called by startCamera
MediaRequest(mode) ==
    [mounted |-> TRUE, fallback |-> FALSE, facingMode |-> mode]

\* what a change of currentView to next does to CreateView: it is mounted
\* when next is POST, unmounted when currentView was POST
CreateViewFollows(next) ==
    IF currentView # "POST" /\ next = "POST"
    THEN /\ Cardinality(liveStreams) < MaxStreams
         /\ stream' = NoStream
         /\ facingMode' = "environment"
         /\ isSwitchingCamera' = FALSE
         /\ capturedMedia' = FALSE
         /\ effectStream' = NoStream
         /\ Len(mediaRequests) < MaxRequests
         /\ mediaRequests' = Append(mediaRequests, MediaRequest("environment"))
         /\ UNCHANGED liveStreams
    ELSE IF currentView = "POST" /\ next # "POST"
    THEN /\ liveStreams' = StopTracks(liveStreams, effectStream)
         /\ mediaRequests' = Unmounted(mediaRequests)
         /\ stream' = NoStream
         /\ effectStream' = NoStream
         /\ facingMode' = "environment"
         /\ isSwitchingCamera' = FALSE
         /\ capturedMedia' = FALSE
    ELSE UNCHANGED cameraVars

\* getUserMedia resolves with a stream: if (mounted) setStream(mediaStream);
\* the first request of startCamera stops the stream if the effect is not
\* mounted any more, the request of the fallback does not
getUserMediaResolves(i) ==
    /\ i \in DOMAIN mediaRequests
    /\ Cardinality(liveStreams) < MaxStreams
    /\ mediaRequests' = SubSeq(mediaRequests, 1, i - 1)
                           \o SubSeq(mediaRequests, i + 1, Len(mediaRequests))
    /\ IF mediaRequests[i].mounted
       THEN /\ stream' = NewStream
            /\ liveStreams' = liveStreams \cup {NewStream}
            /\ isSwitchingCamera' = FALSE
       ELSE /\ liveStreams' = IF mediaRequests[i].fallback
                              THEN liveStreams \cup {NewStream}
                              ELSE liveStreams
            /\ UNCHANGED <<stream, isSwitchingCamera>>
    /\ UNCHANGED <<effectStream, facingMode, capturedMedia>>
    /\ UNCHANGED <<now, nextSweep, activeStories, displayedSpots, swept,
                   likedStoryIds, stories, story_likes, story_reports,
                   inflight, calls, lastReport, refreshVars, viewVars,
                   sessionVars>>

\* getUserMedia rejects: setIsSwitchingCamera(false) (without effect once
\* CreateView is unmounted), then by err.name: the permission error is
\* shown, or, on OverconstrainedError, getUserMedia is called again without
\* the constraints
getUserMediaRejects(i, overconstrained) ==
    /\ i \in DOMAIN mediaRequests
    /\ ~mediaRequests[i].fallback
    /\ mediaRequests' =
          IF overconstrained
          THEN [mediaRequests EXCEPT ![i].fallback = TRUE]
          ELSE SubSeq(mediaRequests, 1, i - 1)
                  \o SubSeq(mediaRequests, i + 1, Len(mediaRequests))
    /\ isSwitchingCamera' =
          IF currentView = "POST" THEN FALSE ELSE isSwitchingCamera
    /\ UNCHANGED <<stream, effectStream, liveStreams, facingMode,
                   capturedMedia>>
    /\ UNCHANGED <<now, nextSweep, activeStories, displayedSpots, swept,
                   likedStoryIds, stories, story_likes, story_reports,
                   inflight, calls, lastReport, refreshVars, viewVars,
                   sessionVars>>

\* handleSwitchCamera: the stream of the state is stopped and set to null,
\* facingMode changes, and the effect runs again
handleSwitchCamera ==
    /\ currentView = "POST"
    /\ ~isSwitchingCamera
    /\ ~capturedMedia
    /\ isSwitchingCamera' = TRUE
    /\ stream' = NoStream
    /\ facingMode' = IF facingMode = "user" THEN "environment" ELSE "user"
    /\ effectStream' = NoStream
    /\ Len(mediaRequests) < MaxRequests
    /\ liveStreams' = StopTracks(StopTracks(liveStreams, stream), effectStream)
    /\ mediaRequests' =
          Append(Unmounted(mediaRequests), MediaRequest(facingMode'))
    /\ UNCHANGED capturedMedia
    /\ UNCHANGED <<now, nextSweep, activeStories, displayedSpots, swept,
                   likedStoryIds, stories, story_likes, story_reports,
                   inflight, calls, lastReport, refreshVars, viewVars,
                   sessionVars>>

\* handleCapture (a photo): setCapturedMedia(base64); if (stream) the tracks
\* are stopped; capturedMedia is a dependency of the effect, which runs
\* again and does not start the camera
handleCapture ==
    /\ currentView = "POST"
    /\ stream # NoStream
    /\ ~capturedMedia
    /\ capturedMedia' = TRUE
    /\ effectStream' = stream
    /\ liveStreams' = StopTracks(StopTracks(liveStreams, stream), effectStream)
    /\ mediaRequests' = Unmounted(mediaRequests)
    /\ UNCHANGED <<stream, facingMode, isSwitchingCamera>>
    /\ UNCHANGED <<now, nextSweep, activeStories, displayedSpots, swept,
                   likedStoryIds, stories, story_likes, story_reports,
                   inflight, calls, lastReport, refreshVars, viewVars,
                   sessionVars>>

(***************************************************************************)
(* The session: currentView, user, pendingView and the handlers that       *)
(* change them.  Navbar is rendered in every view but POST and AUTH; the   *)
(* login button and the button of the empty feed are in the feed.          *)
(***************************************************************************)
Views == {"MAP", "FEED", "POST", "PROFILE", "AUTH"}

\* handleNavigation(view), from Navbar, from the login button (AUTH, shown
\* when !user) or from the button of the empty feed (POST)
handleNavigation(view) ==
    /\ currentView \notin {"POST", "AUTH"}
    /\ view = "AUTH" => (user = NoUser /\ currentView = "FEED")
    /\ IF view \in {"POST", "PROFILE"} /\ user = NoUser
       THEN /\ pendingView' = view
            /\ currentView' = "AUTH"
       ELSE /\ currentView' = view
            /\ UNCHANGED pendingView
    /\ CreateViewFollows(currentView')
    /\ UNCHANGED <<user, reportingStoryId, posts>>
    /\ UNCHANGED <<now, nextSweep, activeStories, displayedSpots, swept,
                   likedStoryIds, stories, story_likes, story_reports,
                   inflight, calls, lastReport, refreshVars, viewVars>>

\* handleLoginSuccess(loggedInUser), the onLoginSuccess of AuthView
handleLoginSuccess(loggedInUser) ==
    /\ currentView = "AUTH"
    /\ user' = loggedInUser
    /\ IF pendingView # NoView
       THEN /\ currentView' = pendingView
            /\ pendingView' = NoView
       ELSE /\ currentView' = "FEED"
            /\ UNCHANGED pendingView
    /\ CreateViewFollows(currentView')
    /\ UNCHANGED <<reportingStoryId, posts>>
    /\ UNCHANGED <<now, nextSweep, activeStories, displayedSpots, swept,
                   likedStoryIds, stories, story_likes, story_reports,
                   inflight, calls, lastReport, refreshVars, viewVars>>

\* the onCancel of AuthView: setCurrentView(ViewState.FEED); pendingView
\* keeps its value
AuthCancel ==
    /\ currentView = "AUTH"
    /\ currentView' = "FEED"
    /\ UNCHANGED <<user, pendingView, reportingStoryId, posts, cameraVars>>
    /\ UNCHANGED <<now, nextSweep, activeStories, displayedSpots, swept,
                   likedStoryIds, stories, story_likes, story_reports,
                   inflight, calls, lastReport, refreshVars, viewVars>>

\* handleLogout without its setCurrentView(ViewState.FEED)
handleLogoutKeepingView ==
    /\ currentView = "PROFILE"
    /\ user # NoUser
    /\ user' = NoUser
    /\ UNCHANGED <<currentView, pendingView, reportingStoryId, posts,
                   cameraVars>>
    /\ UNCHANGED <<now, nextSweep, activeStories, displayedSpots, swept,
                   likedStoryIds, stories, story_likes, story_reports,
                   inflight, calls, lastReport, refreshVars, viewVars>>

\* handleLogout, the onLogout of ProfileView (after window.confirm)
handleLogout ==
    /\ currentView = "PROFILE"
    /\ user # NoUser
    /\ user' = NoUser
    /\ currentView' = "FEED"
    /\ UNCHANGED <<pendingView, reportingStoryId, posts, cameraVars>>
    /\ UNCHANGED <<now, nextSweep, activeStories, displayedSpots, swept,
                   likedStoryIds, stories, story_likes, story_reports,
                   inflight, calls, lastReport, refreshVars, viewVars>>

\* handleReportStory(storyId), from a story card of the feed
handleReportStory(storyId) ==
    /\ currentView = "FEED"
    /\ \E i \in DOMAIN activeStories : activeStories[i].id = storyId
    /\ IF user = NoUser
       THEN /\ pendingView' = "FEED"
            /\ currentView' = "AUTH"
            /\ UNCHANGED reportingStoryId
       ELSE /\ reportingStoryId' = storyId
            /\ UNCHANGED <<pendingView, currentView>>
    /\ UNCHANGED <<user, posts, cameraVars>>
    /\ UNCHANGED <<now, nextSweep, activeStories, displayedSpots, swept,
                   likedStoryIds, stories, story_likes, story_reports,
                   inflight, calls, lastReport, refreshVars, viewVars>>

\* the onClose of ReportModal, rendered when reportingStoryId && user
ReportModalClose ==
    /\ reportingStoryId # NoStory
    /\ user # NoUser
    /\ reportingStoryId' = NoStory
    /\ UNCHANGED <<currentView, user, pendingView, posts, cameraVars>>
    /\ UNCHANGED <<now, nextSweep, activeStories, displayedSpots, swept,
                   likedStoryIds, stories, story_likes, story_reports,
                   inflight, calls, lastReport, refreshVars, viewVars>>

\* handleSpotSelectFromMap: a spot of the map is chosen
handleSpotSelectFromMap ==
    /\ currentView = "MAP"
    /\ displayedSpots # <<>>
    /\ currentView' = "FEED"
    /\ UNCHANGED <<user, pendingView, reportingStoryId, posts, cameraVars>>
    /\ UNCHANGED <<now, nextSweep, activeStories, displayedSpots, swept,
                   likedStoryIds, stories, story_likes, story_reports,
                   inflight, calls, lastReport, refreshVars, viewVars>>

\* the onClose of CreateView: setCurrentView(ViewState.FEED)
CreateViewClose ==
    /\ currentView = "POST"
    /\ currentView' = "FEED"
    /\ CreateViewFollows(currentView')
    /\ UNCHANGED <<user, pendingView, reportingStoryId, posts>>
    /\ UNCHANGED <<now, nextSweep, activeStories, displayedSpots, swept,
                   likedStoryIds, stories, story_likes, story_reports,
                   inflight, calls, lastReport, refreshVars, viewVars>>

(***************************************************************************)
(* handlePostSuccess: the story is created in the store, and the answer of *)
(* createStory is prepended to activeStories.                              *)
(***************************************************************************)
\* STORY_LIFETIME_MS, 24 h in the source, in ticks
StoryLifetime == 3

MaxPosts == 1

\* `story_${Date.now()}_${random}`: an id no story has yet
NewStoryId ==
    LET used == {id \in StoryIds : stories[id].present}
                   \cup {activeStories[i].id : i \in DOMAIN activeStories}
                   \cup {p.story.id : p \in posts}
    IN  CHOOSE id \in 1..(MaxStories + 1) :
            id \notin used /\ \A k \in 1..(id - 1) : k \in used

\* the row createStory inserts for newStory
storyToSupabase(story) ==
    [present |-> TRUE, user_id |-> story.userId, latitude |-> story.latitude,
     longitude |-> story.longitude, location_name |-> story.locationName,
     likes |-> story.likes, expires_at |-> story.expiresAt,
     reports_count |-> 0, is_hidden |-> FALSE,
     country_code |-> story.countryCode]

\* handlePostSuccess up to the answer of createStory: if (!user) return;
\* newStory is built with expiresAt = Date.now() + STORY_LIFETIME_MS and
\* createStory inserts it, or fails (saved = FALSE)
PostRequest(saved) ==
    /\ user # NoUser
    /\ currentView = "POST"
    /\ capturedMedia
    /\ Cardinality(posts) < MaxPosts
    /\ NewStoryId \in StoryIds
    /\ LET newStory ==
               [id |-> NewStoryId, userId |-> user, latitude |-> 95150,
                longitude |-> 0 - 137100, locationName |-> "Plage",
                likes |-> 0, expiresAt |-> now + StoryLifetime,
                countryCode |-> "GN"]
       IN  /\ stories' = IF saved
                         THEN [stories EXCEPT
                                  ![NewStoryId] = storyToSupabase(newStory)]
                         ELSE stories
           /\ posts' = posts \cup
                  {[story |-> IF saved
                              THEN supabaseToStory(NewStoryId,
                                                   storyToSupabase(newStory))
                              ELSE newStory,
                    saved |-> saved]}
    /\ UNCHANGED <<currentView, user, pendingView, reportingStoryId,
                   cameraVars, activeStories, displayedSpots>>
    /\ UNCHANGED <<now, nextSweep, swept, likedStoryIds, story_likes,
                   story_reports, inflight, calls, lastReport, refreshVars,
                   viewVars>>

\* handlePostSuccess after the answer: setActiveStories(prev => [savedStory,
\* ...prev]), or newStory when the story was not saved, then
\* setCurrentView(ViewState.FEED)
PostResponse ==
    \E p \in posts :
        /\ activeStories' = <<p.story>> \o activeStories
        /\ displayedSpots' = ComputeSpots(activeStories')
        /\ posts' = posts \ {p}
        /\ currentView' = "FEED"
        /\ CreateViewFollows(currentView')
        /\ UNCHANGED <<user, pendingView, reportingStoryId, stories>>
        /\ UNCHANGED <<now, nextSweep, swept, likedStoryIds, story_likes,
                       story_reports, inflight, calls, lastReport, refreshVars,
                       viewVars>>

\* a first visit: nobody is logged in, the feed shows the stories of the
\* store, which outlive the session
InitNavigation ==
    /\ now = 0
    /\ nextSweep = SweepInterval
    /\ stories = [id \in StoryIds |->
                     IF id \in FeedStoryIds THEN FeedRow(MaxTime + StoryLifetime)
                     ELSE NoRow]
    /\ activeStories = getActiveStories(NoCountry, TRUE)
    /\ displayedSpots = ComputeSpots(activeStories)
    /\ swept = NoSweep
    /\ likedStoryIds = {}
    /\ story_likes = {}
    /\ story_reports = {}
    /\ inflight = <<>>
    /\ calls = EmptyBag
    /\ lastReport = NoReport
    /\ InitView
    /\ currentView = "FEED"
    /\ user = NoUser
    /\ pendingView = NoView
    /\ reportingStoryId = NoStory
    /\ posts = {}
    /\ InitCamera

NextNavigation ==
    \/ \E view \in Views : handleNavigation(view)
    \/ handleLoginSuccess(Me)
    \/ AuthCancel
    \/ handleLogout
    \/ \E storyId \in StoryIds : handleReportStory(storyId)
    \/ ReportModalClose
    \/ handleSpotSelectFromMap
    \/ CreateViewClose
    \/ \E i \in 1..MaxRequests : getUserMediaResolves(i)
    \/ \E i \in 1..MaxRequests, overconstrained \in BOOLEAN :
           getUserMediaRejects(i, overconstrained)
    \/ handleSwitchCamera
    \/ handleCapture
    \/ \E saved \in BOOLEAN : PostRequest(saved)
    \/ PostResponse

SpecNavigation == InitNavigation /\ [][NextNavigation]_vars

\* C27: currentView is POST or PROFILE only while a user is logged in,
\* whatever the sequence of navigation, login success, auth cancel, report
\* and logout.
C27_PostAndProfileNeedAUser ==
    currentView \in {"POST", "PROFILE"} => user # NoUser

\* the login that followed a navigation to POST without a user has led to
\* POST
C27_Witness ==
    /\ currentView = "POST"
    /\ user = Me
    /\ pendingView = NoView
    /\ ~capturedMedia

\* C24: once CreateView is unmounted and no getUserMedia request is
\* pending, no stream CreateView obtained is still active.
C24_NoStreamOutlivesCreateView ==
    (currentView # "POST" /\ mediaRequests = <<>>) => liveStreams = {}

(***************************************************************************)
(* SpecPosts: the user publishes the captured media while the feed is      *)
(* loaded, reloaded and swept.  CreateView is open with a captured photo   *)
(* (the capture has stopped the camera); the store holds stories of other  *)
(* users, for every combination of their expiry instants.                  *)
(***************************************************************************)
InitPosts ==
    /\ now = 0
    /\ nextSweep = SweepInterval
    /\ activeStories = <<>>
    /\ displayedSpots = ComputeSpots(activeStories)
    /\ swept = NoSweep
    /\ likedStoryIds = {}
    /\ \E expiry \in [FeedStoryIds -> 1..MaxTime] :
          stories = [id \in StoryIds |->
                        IF id \in FeedStoryIds THEN FeedRow(expiry[id])
                        ELSE NoRow]
    /\ story_likes = {}
    /\ story_reports = {}
    /\ inflight = <<>>
    /\ calls = EmptyBag
    /\ lastReport = NoReport
    /\ InitView
    /\ currentView = "POST"
    /\ user = Me
    /\ pendingView = NoView
    /\ reportingStoryId = NoStory
    /\ posts = {}
    /\ stream = 1
    /\ effectStream = 1
    /\ mediaRequests = <<>>
    /\ liveStreams = {}
    /\ facingMode = "environment"
    /\ isSwitchingCamera = FALSE
    /\ capturedMedia = TRUE

NextPosts ==
    \/ Tick
    \/ CleanupLoop
    \/ loadStoriesRequest
    \/ loadStoriesResponse
    \/ \E saved \in BOOLEAN : PostRequest(saved)
    \/ PostResponse

SpecPosts == InitPosts /\ [][NextPosts]_vars

\* C25: activeStories never holds two entries with the same story id,
\* however handlePostSuccess and the reloads of loadStories interleave.
C25_NoStoryTwice ==
    \A i, j \in DOMAIN activeStories :
        activeStories[i].id = activeStories[j].id => i = j

(***************************************************************************)
(* SpecExpiry: SpecPosts with the scheduling of the browser: time passes,  *)
(* and the interval timer of the cleanup loop (setInterval, 10000 ms)      *)
(* fires whenever it is due.  Nothing is assumed on the answers of the     *)
(* store.  Each story of the store expires at the first instant or at the  *)
(* last one.                                                               *)
(***************************************************************************)
InitExpiry ==
    /\ InitPosts
    /\ \A id \in FeedStoryIds : stories[id].expires_at \in {1, MaxTime}

SpecExpiry ==
    InitExpiry /\ [][NextPosts]_vars /\ WF_vars(Tick) /\ WF_vars(CleanupLoop)

\* the story id is in activeStories
InFeed(list, id) == \E i \in DOMAIN list : list[i].id = id

\* the story id is in activeStories and the clock has reached its expiresAt
ExpiredInFeed(id) ==
    \E i \in DOMAIN activeStories :
        activeStories[i].id = id /\ ~StillValid(activeStories[i], now)

====
